---- MODULE Spec2Model ----
(***************************************************************************)
(* Weekly ingestion and forecast core of the arboviroses platform.         *)
(*                                                                         *)
(* Dates are day numbers; day 0 is a Monday, so d % 7 = 0 is Monday and    *)
(* d % 7 = 6 is Sunday.  Numeric readings are exact fractions <<n, d>>;    *)
(* NaN (bound by sqlite3 as SQL NULL) is <<0, 0>>.  A table is a bag of    *)
(* rows, as an SQL table is.                                               *)
(***************************************************************************)
EXTENDS Bags, FiniteSets, Integers, Sequences, TLC

VARIABLES
    casesCols,      \* columns of SQLite table weekly_cases ({} = no such table)
    casesUnique,    \* weekly_cases has a PRIMARY KEY / UNIQUE index on (city, date)
    weekly_cases,   \* committed rows of weekly_cases
    weatherExists,  \* SQLite table weather_weekly exists
    weather_weekly, \* committed rows of weather_weekly
    last,           \* the last store operation: its outcome, the rows a failed batch
                    \* executed before its error, the rows of a committed batch that
                    \* met a stored key
    latest          \* per key: cases carried by the most recent committed batch with that key

VARIABLES
    lock,           \* the process holding SQLite's write lock on the database file, or 0
    pc,             \* per ingestion process: idle, writing, done, failed
    cframe,         \* per process: the weekly weather frame it upserts
    cidx,           \* per process: rows of the frame executed so far
    cwork,          \* per process: the table as its open transaction sees it
    base            \* weather_weekly before the two processes started

dbVars == <<casesCols, casesUnique, weekly_cases, weatherExists, weather_weekly, last, latest>>

VARIABLES
    wk_kind,        \* which weekify runs: backfill_weekly's or script_ingest's
    wk_raw,         \* the frame as loaded
    wk_out,         \* the frame after the weekify passes so far
    wk_prev,        \* the frame before the last pass
    passes,         \* weekify passes applied
    stamped         \* [writer, week, date]: date labels written, with the Monday of
                    \* the calendar week the observations fell in

concVars == <<lock, pc, cframe, cidx, cwork, base>>

VARIABLES
    ingested,       \* the city names read from case files so far, as written there
    cities_stored,  \* the distinct city values of weekly_cases
    asked,          \* the city of the last /api/data request, or the empty name
    answer          \* the stored city whose rows that request returned, or the empty name

weekVars == <<wk_kind, wk_raw, wk_out, wk_prev, passes, stamped>>

VARIABLES
    series,         \* total_cases of the requested city's weekly_cases rows, by date
    model_file,     \* the artifact in MODEL_DIR: none, or model.h5
    req,            \* the body of the last /api/predict request
    resp,           \* the JSON object it was answered with, or the exception that escaped
    call,           \* what the last predict call read and built: the database
                    \* records, the kind of CSV, the input sequence, the branch taken
    model_loads,    \* calls of load_model so far
    data_call,      \* what the last /api/data call read: the records, the kind of CSV
    data_resp       \* the JSON object it was answered with, or the exception that escaped

nameVars == <<ingested, cities_stored, asked, answer>>

VARIABLES
    run             \* the last run of backfill_weekly.main: the kind of each source it
                    \* was given, the keys its readable sources carried, the readings
                    \* its weather sources had none of, and how it ended

predVars == <<series, model_file, req, resp, call, model_loads, data_call, data_resp>>

VARIABLES
    dates           \* a call of backfill_weekly._parse_dates: the column it was given,
                    \* how the installed pandas parses, the first pass and the result

VARIABLES
    feat            \* the feature pipeline: the frame make_features wrote, the rows
                    \* train_lstm_global kept and the windows it built, and how far
                    \* the pipeline has run

VARIABLES
    detect,         \* a call of load_weather_csv's column detection: the header of the
                    \* file and the source column found for each reading
    pg,             \* script_ingest_real_data against Postgres: the weekly frame a
                    \* loader returned, the rows the upsert bound, how the upsert ended
    climate_data    \* the Postgres table climate_data, and the station files the
                    \* weather import has processed so far

runVars == <<run>>

libVars == <<dates, feat, detect, pg, climate_data>>

vars == <<dbVars, concVars, weekVars, nameVars, predVars, runVars, libVars>>

\* everything but the SQLite store
notDb == <<concVars, weekVars, nameVars, predVars, runVars, libVars>>

-----------------------------------------------------------------------------
(* Values *)

\* NaN of a float column; sqlite3 binds it as NULL
NaN == <<0, 0>>

\* a missing INTEGER (a column the row never had); also "no batch yet" in latest
NULLINT == -1

Rat(n) == <<n, 1>>

\* largest weekly case count drawn for a batch
MaxCases == 1

CaseVals == 0..MaxCases

\* the readings of the conflict-policy scenario (25.0 and 26.0)
Readings == {Rat(25), Rat(26)}

Cities == {"Diamantina", "Teofilo Otoni"}

\* groupby sorts its keys: the rows of a weekly frame are in city order
CityOrder == <<"Diamantina", "Teofilo Otoni">>

\* a day of the one calendar week the store model ingests (a Wednesday)
SampleDay == 2

Fields == {"temp", "prec", "umid"}

-----------------------------------------------------------------------------
(* Week labels *)

WeekStartSunday(d) == d - (d % 7) - 1

\* dt.to_period("W-SUN").dt.start_time: W-SUN weeks END on Sunday, so the
\* start of the period is the Monday on or before the date
WeekStart(d) == d - (d % 7)

\* resample("W-SUN"): bins closed and labelled on the right, the Sunday on or
\* after the date
ResampleLabel(d) == d + (6 - (d % 7))

-----------------------------------------------------------------------------
(* Tables as bags of rows *)

RECURSIVE SumOver(_, _)
SumOver(S, t) ==
    IF S = {} THEN 0
    ELSE LET e == CHOOSE x \in S : TRUE IN t[e] + SumOver(S \ {e}, t)

\* every row e of t replaced by F(e), multiplicities kept
BagMap(t, F(_)) ==
    LET img == {F(e) : e \in DOMAIN t}
    IN  [y \in img |-> SumOver({e \in DOMAIN t : F(e) = y}, t)]

KeyOf(r) == <<r.city, r.date>>

KeysOf(t) == {KeyOf(r) : r \in DOMAIN t}

\* number of stored rows carrying key k
RowCount(t, k) == SumOver({r \in DOMAIN t : KeyOf(r) = k}, t)

RowAt(t, k) == CHOOSE r \in DOMAIN t : KeyOf(r) = k

\* ON CONFLICT(city, date): the stored rows the incoming row conflicts with
ConflictsNever(t, r) == {}

Conflicts(t, r) == {e \in DOMAIN t : KeyOf(e) = KeyOf(r)}

CoalesceOverwrite(a, b) == a

\* COALESCE(excluded.f, stored.f)
Coalesce(a, b) == IF a # NaN THEN a ELSE b

CoalesceInt(a, b) == IF a # NULLINT THEN a ELSE b

-----------------------------------------------------------------------------
(* upsert_weekly_cases *)

CasesPayloadNoTotal(r) ==
    IF "total_cases" \in DOMAIN r THEN r
    ELSE [city |-> r.city, date |-> r.date, cases |-> r.cases, total_cases |-> NULLINT]

\* payload["total_cases"] = payload["cases"] when the frame has no such column
CasesPayload(r) ==
    IF "total_cases" \in DOMAIN r THEN r
    ELSE [city |-> r.city, date |-> r.date, cases |-> r.cases, total_cases |-> r.cases]

SetCasesAccumulate(old, p) ==
    [old EXCEPT !.cases = old.cases + p.cases,
                !.total_cases = CoalesceInt(p.total_cases, old.total_cases)]

SetCasesKeep(old, p) ==
    [old EXCEPT !.total_cases = CoalesceInt(p.total_cases, old.total_cases)]

\* DO UPDATE SET cases = excluded.cases,
\*               total_cases = COALESCE(excluded.total_cases, weekly_cases.total_cases)
SetCases(old, p) ==
    [old EXCEPT !.cases = p.cases,
                !.total_cases = CoalesceInt(p.total_cases, old.total_cases)]

\* one row of the executemany: INSERT ... ON CONFLICT(city, date) DO UPDATE
UpsertCasesRow(t, r) ==
    LET p == CasesPayload(r)
        hit == Conflicts(t, p)
    IN  IF hit = {}
        THEN t (+) SetToBag({[city |-> p.city, date |-> p.date,
                              cases |-> p.cases, total_cases |-> p.total_cases]})
        ELSE BagMap(t, LAMBDA e : IF e \in hit THEN SetCases(e, p) ELSE e)

\* the first n rows of the executemany applied in order
RECURSIVE ExecCases(_, _, _)
ExecCases(t, rows, n) ==
    IF n = 0 THEN t
    ELSE UpsertCasesRow(ExecCases(t, rows, n - 1), rows[n])

\* the statement can run: the table has the columns and the conflict target
CasesWritable == {"city", "date", "cases", "total_cases"} \subseteq casesCols /\ casesUnique

-----------------------------------------------------------------------------
(* upsert_weather_weekly *)

\* cols = the value columns the frame has; a column the frame lacks is neither
\* inserted nor updated: it is NULL in a new row and kept in a stored one
WeatherInsertRow(cols, r) ==
    [city |-> r.city, date |-> r.date,
     temp |-> IF "temp" \in cols THEN r.temp ELSE NaN,
     prec |-> IF "prec" \in cols THEN r.prec ELSE NaN,
     umid |-> IF "umid" \in cols THEN r.umid ELSE NaN]

\* DO UPDATE SET c = COALESCE(excluded.c, weather_weekly.c) for c in cols
SetWeather(old, cols, r) ==
    [old EXCEPT !.temp = IF "temp" \in cols THEN Coalesce(r.temp, old.temp) ELSE old.temp,
                !.prec = IF "prec" \in cols THEN Coalesce(r.prec, old.prec) ELSE old.prec,
                !.umid = IF "umid" \in cols THEN Coalesce(r.umid, old.umid) ELSE old.umid]

UpsertWeatherRow(t, cols, r) ==
    LET hit == Conflicts(t, r)
    IN  IF hit = {}
        THEN t (+) SetToBag({WeatherInsertRow(cols, r)})
        ELSE BagMap(t, LAMBDA e : IF e \in hit THEN SetWeather(e, cols, r) ELSE e)

RECURSIVE ExecWeather(_, _, _)
ExecWeather(t, df, n) ==
    IF n = 0 THEN t
    ELSE UpsertWeatherRow(ExecWeather(t, df, n - 1), df.cols, df.rows[n])

-----------------------------------------------------------------------------
(* The connection *)

ConnExitCommit(committed, work, raised) == work

\* "with sqlite3.connect(DB_PATH) as con": the context manager rolls the open
\* transaction back when the block raises, and commits otherwise
ConnExit(committed, work, raised) == IF raised THEN committed ELSE work

-----------------------------------------------------------------------------
(* Inputs *)

\* the rows of the cities in S, in groupby order
RowsIn(S, row(_)) ==
    SelectSeq([i \in 1..Len(CityOrder) |-> row(CityOrder[i])], LAMBDA r : r.city \in S)

\* weekly frames weekify hands to upsert_weekly_cases: one row per (city, week),
\* columns city, date, cases
CasesFrames ==
    {RowsIn(S, LAMBDA c : [city |-> c, date |-> WeekStart(SampleDay), cases |-> v[c]]) :
        S \in SUBSET Cities, v \in [Cities -> CaseVals]}

\* weekly weather frames: the value columns present are those of the source file;
\* every reading of a row is the same value or NaN
WeatherColSets == {{"temp"}, Fields}

WeatherRowOf(c, cols, x) ==
    IF cols = {"temp"}
    THEN [city |-> c, date |-> WeekStart(SampleDay), temp |-> x]
    ELSE [city |-> c, date |-> WeekStart(SampleDay), temp |-> x, prec |-> x, umid |-> x]

WeatherFrames ==
    {[cols |-> cols, rows |-> RowsIn(S, LAMBDA c : WeatherRowOf(c, cols, v[c]))] :
        cols \in WeatherColSets, S \in SUBSET Cities,
        v \in [Cities -> Readings \cup {NaN}]}

\* the frames of one source file with all three columns and one reading
FileWeatherFrames ==
    {[cols |-> Fields, rows |-> RowsIn(S, LAMBDA c : WeatherRowOf(c, Fields, x))] :
        S \in SUBSET Cities, x \in Readings \cup {NaN}}

\* what build_db finds at sinan_path
CsvStates == {"missing", "no_columns", "data"}

NoBatch == [k \in Cities \X {WeekStart(SampleDay)} |-> NULLINT]

-----------------------------------------------------------------------------
(* Operations of the SQLite store *)

Procs == {1, 2}

NoFrame == [cols |-> {}, rows |-> <<>>]

\* no database file yet
InitDb ==
    /\ casesCols = {}
    /\ casesUnique = FALSE
    /\ weekly_cases = EmptyBag
    /\ weatherExists = FALSE
    /\ weather_weekly = EmptyBag
    /\ last = [op |-> "none", outcome |-> "none", written |-> 0, hits |-> 0]
    /\ latest = NoBatch

\* no ingestion process running
InitConcIdle ==
    /\ lock = 0
    /\ pc = [p \in Procs |-> "idle"]
    /\ cframe = [p \in Procs |-> NoFrame]
    /\ cidx = [p \in Procs |-> 0]
    /\ cwork = [p \in Procs |-> EmptyBag]
    /\ base = EmptyBag

\* no frame loaded
InitWeekIdle ==
    /\ wk_kind = "none"
    /\ wk_raw = <<>>
    /\ wk_out = <<>>
    /\ wk_prev = <<>>
    /\ passes = 0
    /\ stamped = {}

\* no city stored, no request made
InitNames ==
    /\ ingested = {}
    /\ cities_stored = {}
    /\ asked = <<>>
    /\ answer = <<>>

\* no rows for the city, no trained model, no request made
InitPredict ==
    /\ series = <<>>
    /\ model_file = "none"
    /\ req = <<>>
    /\ resp = <<>>
    /\ call = [records |-> <<>>, csv |-> "missing", seq |-> <<>>, path |-> "none",
               scaler |-> FALSE, inp |-> <<>>, p_scaled |-> 0]
    /\ model_loads = 0
    /\ data_call = <<>>
    /\ data_resp = <<>>

\* backfill_weekly.main has not run
NoRun == [cases |-> "none", weather |-> <<>>, cases_keys |-> {}, weather_keys |-> {},
          missing |-> {}, outcome |-> "none"]

InitRun == run = NoRun

\* _parse_dates has not been called
NoDates == [series |-> <<>>, lenient |-> FALSE, stripped |-> FALSE,
            first |-> <<>>, out |-> <<>>, done |-> FALSE]

\* load_weather_csv has not been called
NoDetect == [columns |-> <<>>, temp_col |-> 0, prec_col |-> 0, umid_col |-> 0, done |-> FALSE]

\* script_ingest_real_data has not run
NoIngest == [wk |-> <<>>, bound |-> <<>>, outcome |-> "none", op |-> "none",
             weekly_cases |-> {}, weather_weekly |-> {}]

\* climate_data is empty and no file has been imported
NoClimate == [rows |-> {}, processed |-> <<>>, date_unique |-> TRUE]

\* no feature file yet
NoFeat == [rows |-> <<>>, kept |-> <<>>, windows |-> <<>>, step |-> "none"]

\* no library function or offline script has been called
InitLib ==
    /\ dates = NoDates
    /\ feat = NoFeat
    /\ detect = NoDetect
    /\ pg = NoIngest
    /\ climate_data = NoClimate

Init ==
    /\ InitDb
    /\ InitConcIdle
    /\ InitWeekIdle
    /\ InitNames
    /\ InitPredict
    /\ InitRun
    /\ InitLib

\* per city, the total of the week in the SINAN file
CsvTotals == [Cities -> CaseVals]

\* build_database.build_db: the database file is deleted and weekly_cases is
\* rebuilt as (date, total_cases, city) with no key; when the file at sinan_path
\* is there and has the columns, one row per city and week is appended
BuildRows(csv, v) ==
    IF csv # "data" THEN EmptyBag
    ELSE SetToBag({[city |-> c, date |-> ResampleLabel(SampleDay),
                    cases |-> NULLINT, total_cases |-> v[c]] : c \in Cities})

build_db ==
    \E csv \in CsvStates :
      \E v \in IF csv = "data" THEN CsvTotals ELSE {[c \in Cities |-> 0]} :
        /\ casesCols' = {"date", "total_cases", "city"}
        /\ casesUnique' = FALSE
        /\ weekly_cases' = BuildRows(csv, v)
        /\ weatherExists' = FALSE
        /\ weather_weekly' = EmptyBag
        /\ last' = [op |-> "build_db", outcome |-> "ok", written |-> 0, hits |-> 0]
        /\ latest' = NoBatch
        /\ UNCHANGED notDb

\* the key of some row is stored more than once
HasDuplicates(t) == \E k \in KeysOf(t) : RowCount(t, k) > 1

\* backfill_weekly.ensure_schema
ensure_schema ==
    LET created == casesCols = {}
        addCases == ~created /\ "cases" \notin casesCols
        addTotal == ~created /\ "total_cases" \notin casesCols
        migrated ==
            BagMap(weekly_cases, LAMBDA e :
                [e EXCEPT !.cases = IF addCases /\ "total_cases" \in casesCols /\ e.cases = NULLINT
                                    THEN e.total_cases ELSE e.cases,
                          !.total_cases = IF addTotal /\ "cases" \in casesCols
                                             /\ e.total_cases = NULLINT
                                          THEN e.cases ELSE e.total_cases])
        indexFails == HasDuplicates(weekly_cases) \/ HasDuplicates(weather_weekly)
    IN  /\ casesCols' = casesCols \cup {"city", "date", "cases", "total_cases"}
        /\ casesUnique' = (casesUnique \/ ~indexFails)
        /\ weekly_cases' = ConnExit(weekly_cases, migrated, indexFails)
        /\ weatherExists' = TRUE
        /\ weather_weekly' = weather_weekly
        /\ last' = [op |-> "ensure_schema",
                    outcome |-> IF indexFails THEN "error" ELSE "ok", written |-> 0,
                    hits |-> 0]
        /\ latest' = latest
        /\ UNCHANGED notDb

\* backfill_weekly.upsert_weekly_cases on the connection of main(): the frame is
\* written row by row in one transaction; n rows run before the call ends, all
\* of them when it succeeds
upsert_weekly_cases ==
    \E df \in CasesFrames, n \in 0..2 :
        /\ n <= Len(df)
        /\ LET raised == n < Len(df) \/ (df # <<>> /\ ~CasesWritable)
               work == IF CasesWritable THEN ExecCases(weekly_cases, df, n) ELSE weekly_cases
           IN  /\ weekly_cases' = ConnExit(weekly_cases, work, raised)
               /\ last' = [op |-> "upsert_weekly_cases",
                           outcome |-> IF df = <<>> THEN "noop"
                                       ELSE IF ~CasesWritable THEN "error"
                                       ELSE IF raised THEN "failed" ELSE "ok",
                           written |-> IF CasesWritable /\ raised THEN n ELSE 0,
                           hits |-> IF CasesWritable /\ ~raised
                                    THEN Cardinality({i \in 1..n :
                                            KeyOf(df[i]) \in KeysOf(weekly_cases)})
                                    ELSE 0]
               /\ latest' = IF raised THEN latest
                            ELSE [k \in DOMAIN latest |->
                                    IF \E i \in 1..Len(df) : KeyOf(df[i]) = k
                                    THEN (CHOOSE r \in {df[i] : i \in 1..Len(df)} : KeyOf(r) = k).cases
                                    ELSE latest[k]]
        /\ UNCHANGED <<casesCols, casesUnique, weatherExists, weather_weekly>>
        /\ UNCHANGED notDb

\* backfill_weekly.upsert_weather_weekly on the connection of main(), for a frame
\* drawn from frames
UpsertWeather(frames) ==
    \E df \in frames, n \in 0..2 :
        /\ n <= Len(df.rows)
        /\ LET raised == n < Len(df.rows) \/ (df.rows # <<>> /\ ~weatherExists)
               work == IF weatherExists THEN ExecWeather(weather_weekly, df, n) ELSE weather_weekly
           IN  /\ weather_weekly' = ConnExit(weather_weekly, work, raised)
               /\ last' = [op |-> "upsert_weather_weekly",
                           outcome |-> IF df.rows = <<>> THEN "noop"
                                       ELSE IF ~weatherExists THEN "error"
                                       ELSE IF raised THEN "failed" ELSE "ok",
                           written |-> IF weatherExists /\ raised THEN n ELSE 0,
                           hits |-> IF weatherExists /\ ~raised
                                    THEN Cardinality({i \in 1..n :
                                            KeyOf(df.rows[i]) \in KeysOf(weather_weekly)})
                                    ELSE 0]
        /\ UNCHANGED <<casesCols, casesUnique, weekly_cases, weatherExists, latest>>
        /\ UNCHANGED notDb

upsert_weather_weekly == UpsertWeather(FileWeatherFrames)

upsert_weather_columns == UpsertWeather(WeatherFrames)

Next ==
    \/ build_db
    \/ ensure_schema
    \/ upsert_weekly_cases
    \/ upsert_weather_weekly

Spec == Init /\ [][Next]_vars

\* the weather table alone, under frames of every column set
NextWeather ==
    \/ ensure_schema
    \/ upsert_weather_columns

SpecWeather == Init /\ [][NextWeather]_vars

-----------------------------------------------------------------------------
(* Properties of the store *)

\* C1: for each weekly table, every reachable table state and every batch,
\* applying the upsert of the batch twice leaves exactly the table that applying
\* it once leaves (same keys, same field values, same number of rows).
UpsertIdempotent ==
    /\ CasesWritable =>
          \A df \in CasesFrames :
              LET once == ExecCases(weekly_cases, df, Len(df))
              IN  ExecCases(once, df, Len(df)) = once
    /\ weatherExists =>
          \A df \in WeatherFrames :
              LET once == ExecWeather(weather_weekly, df, Len(df.rows))
              IN  ExecWeather(once, df, Len(df.rows)) = once

\* both tables hold rows and the last batch met a stored key: a re-application
UpsertIdempotentWitness ==
    /\ last.outcome = "ok" /\ last.hits = 2
    /\ \E r \in DOMAIN weekly_cases : r.cases = 1
    /\ \E r \in DOMAIN weather_weekly : r.temp = Rat(26) /\ r.prec = Rat(26)

\* C2: upsert_weather_weekly, for every batch row whose key is already stored and
\* each of temp, prec, umid: the stored value becomes the incoming one when that
\* is not null, and stays what it was when the incoming one is null.
WeatherConflictPolicy ==
    weatherExists =>
        \A df \in WeatherFrames : \A i \in 1..Len(df.rows) :
            LET r == df.rows[i]
                k == KeyOf(r)
                after == ExecWeather(weather_weekly, df, Len(df.rows))
            IN  k \in KeysOf(weather_weekly) =>
                    \A f \in Fields :
                        RowAt(after, k)[f] =
                            IF f \in df.cols /\ r[f] # NaN THEN r[f]
                            ELSE RowAt(weather_weekly, k)[f]

\* a stored row whose temp was overwritten by 26 after its readings were 25
WeatherConflictPolicyWitness ==
    /\ last.op = "upsert_weather_weekly" /\ last.outcome = "ok" /\ last.hits >= 1
    /\ \E r \in DOMAIN weather_weekly :
          r.temp = Rat(26) /\ r.prec = Rat(25) /\ r.umid = Rat(25)

\* C3: after any sequence of upsert_weekly_cases batches the stored cases of a key
\* is the value carried by the most recent committed batch that contained the key.
LastBatchWins ==
    \A k \in DOMAIN latest :
        latest[k] # NULLINT =>
            /\ k \in KeysOf(weekly_cases)
            /\ \A r \in DOMAIN weekly_cases : KeyOf(r) = k => r.cases = latest[k]

\* a batch has just overwritten stored rows
LastBatchWinsWitness ==
    /\ last.op = "upsert_weekly_cases" /\ last.outcome = "ok" /\ last.hits = 2
    /\ \E k \in DOMAIN latest : latest[k] = 1
    /\ \E k \in DOMAIN latest : latest[k] = 0

\* C4: after any sequence of build_db, ensure_schema, upsert_weekly_cases and
\* upsert_weather_weekly each weekly table holds at most one row per (city, date).
UniqueWeeklyKeys ==
    /\ \A k \in KeysOf(weekly_cases) : RowCount(weekly_cases, k) = 1
    /\ \A k \in KeysOf(weather_weekly) : RowCount(weather_weekly, k) = 1

\* rows of build_db and of the backfill side by side, and a batch that met them
UniqueWeeklyKeysWitness ==
    /\ last.hits >= 1
    /\ Cardinality(KeysOf(weekly_cases)) = 4
    /\ Cardinality(KeysOf(weather_weekly)) = 2

\* C5: an upsert that fails partway, after earlier rows of its batch were
\* written, leaves both tables as they were before the batch began.
FailedBatchLeavesNothing ==
    [][last'.outcome = "failed" =>
          /\ weekly_cases' = weekly_cases
          /\ weather_weekly' = weather_weekly]_vars

\* a batch failed on its second row, after its first row was written
FailedBatchLeavesNothingWitness ==
    last.outcome = "failed" /\ last.written = 1

-----------------------------------------------------------------------------
(* Two ingestion processes on one database file *)

LockIgnored(l, p) == TRUE

\* the first INSERT of executemany opens the connection's implicit transaction
\* and needs SQLite's write lock, which one connection holds at a time
LockFree(l, p) == l = 0

\* tables a committed file frame leaves in an empty weather_weekly
StartTables == {ExecWeather(EmptyBag, df, Len(df.rows)) : df \in FileWeatherFrames}

InitConc ==
    /\ casesCols = {"city", "date", "cases", "total_cases"}
    /\ casesUnique = TRUE
    /\ weekly_cases = EmptyBag
    /\ weatherExists = TRUE
    /\ weather_weekly \in StartTables
    /\ last = [op |-> "ensure_schema", outcome |-> "ok", written |-> 0, hits |-> 0]
    /\ latest = NoBatch
    /\ lock = 0
    /\ pc = [p \in Procs |-> "idle"]
    /\ cframe \in [Procs -> FileWeatherFrames]
    /\ cidx = [p \in Procs |-> 0]
    /\ cwork = [p \in Procs |-> EmptyBag]
    /\ base = weather_weekly
    /\ InitWeekIdle
    /\ InitNames
    /\ InitPredict
    /\ InitRun
    /\ InitLib

\* upsert_weather_weekly returns at once on an empty frame
ReturnEmpty(p) ==
    /\ pc[p] = "idle"
    /\ cframe[p].rows = <<>>
    /\ pc' = [pc EXCEPT ![p] = "done"]
    /\ UNCHANGED <<dbVars, runVars, libVars, weekVars, nameVars, predVars, lock, cframe, cidx, cwork, base>>

\* executemany begins: the transaction opens on the committed table
Begin(p) ==
    /\ pc[p] = "idle"
    /\ cframe[p].rows # <<>>
    /\ LockFree(lock, p)
    /\ lock' = p
    /\ cwork' = [cwork EXCEPT ![p] = weather_weekly]
    /\ pc' = [pc EXCEPT ![p] = "writing"]
    /\ UNCHANGED <<dbVars, runVars, libVars, weekVars, nameVars, predVars, cframe, cidx, base>>

\* the lock is held past the connection's timeout: "database is locked" is
\* raised before any row was written, and the run ends
Busy(p) ==
    /\ pc[p] = "idle"
    /\ cframe[p].rows # <<>>
    /\ ~LockFree(lock, p)
    /\ pc' = [pc EXCEPT ![p] = "failed"]
    /\ UNCHANGED <<dbVars, runVars, libVars, weekVars, nameVars, predVars, lock, cframe, cidx, cwork, base>>

\* one row of the executemany, inside the open transaction
WriteRow(p) ==
    /\ pc[p] = "writing"
    /\ cidx[p] < Len(cframe[p].rows)
    /\ cwork' = [cwork EXCEPT ![p] =
                    UpsertWeatherRow(cwork[p], cframe[p].cols, cframe[p].rows[cidx[p] + 1])]
    /\ cidx' = [cidx EXCEPT ![p] = cidx[p] + 1]
    /\ UNCHANGED <<dbVars, runVars, libVars, weekVars, nameVars, predVars, lock, pc, cframe, base>>

\* a row raises: the exception leaves main()'s with-block, which rolls back
RowError(p) ==
    /\ pc[p] = "writing"
    /\ cidx[p] < Len(cframe[p].rows)
    /\ weather_weekly' = ConnExit(weather_weekly, cwork[p], TRUE)
    /\ lock' = 0
    /\ pc' = [pc EXCEPT ![p] = "failed"]
    /\ cwork' = [cwork EXCEPT ![p] = EmptyBag]
    /\ UNCHANGED <<casesCols, casesUnique, weekly_cases, weatherExists, last, latest, run,
                   cframe, cidx, base, weekVars, nameVars, predVars, libVars>>

\* con.commit() after the last row
Commit(p) ==
    /\ pc[p] = "writing"
    /\ cidx[p] = Len(cframe[p].rows)
    /\ weather_weekly' = ConnExit(weather_weekly, cwork[p], FALSE)
    /\ lock' = 0
    /\ pc' = [pc EXCEPT ![p] = "done"]
    /\ cwork' = [cwork EXCEPT ![p] = EmptyBag]
    /\ UNCHANGED <<casesCols, casesUnique, weekly_cases, weatherExists, last, latest, run,
                   cframe, cidx, base, weekVars, nameVars, predVars, libVars>>

NextConc ==
    \/ \E p \in Procs : ReturnEmpty(p)
    \/ \E p \in Procs : Begin(p)
    \/ \E p \in Procs : Busy(p)
    \/ \E p \in Procs : WriteRow(p)
    \/ \E p \in Procs : RowError(p)
    \/ \E p \in Procs : Commit(p)

SpecConc == InitConc /\ [][NextConc]_vars

\* the whole frame applied to t
ApplyFrame(t, df) == ExecWeather(t, df, Len(df.rows))

\* C6: two upsert runs on the same keys that overlap in time and both commit
\* leave the table that the two batches leave when applied one after the other,
\* in one of the two orders; a run that ended in an error left nothing.
OverlappingRunsSerialize ==
    (\A p \in Procs : pc[p] \in {"done", "failed"}) =>
        LET b1 == IF pc[1] = "done" THEN cframe[1] ELSE NoFrame
            b2 == IF pc[2] = "done" THEN cframe[2] ELSE NoFrame
        IN  weather_weekly \in {ApplyFrame(ApplyFrame(base, b1), b2),
                                ApplyFrame(ApplyFrame(base, b2), b1)}

\* both runs committed two-row frames on stored keys, and the two orders differ
OverlappingRunsSerializeWitness ==
    /\ \A p \in Procs : pc[p] = "done" /\ Len(cframe[p].rows) = 2
    /\ base # EmptyBag
    /\ ApplyFrame(ApplyFrame(base, cframe[1]), cframe[2])
          # ApplyFrame(ApplyFrame(base, cframe[2]), cframe[1])

-----------------------------------------------------------------------------
(* Weekly Aggregator: weekify, and the date labels each writer produces *)

MaxRows == 2
MaxPasses == 2

\* a Wednesday at noon, the Sunday closing that week, the Monday after it
DailyStamps == {<<2, 1>>, <<6, 0>>, <<7, 0>>}

PrecReadings == {Rat(1)}

\* ISO weeks of the epidemiological series, by index
EpiWeeks == {0, 1}

\* a date value: a Timestamp (kind ts), the text YYYY-MM-DD, or a datetime.date
Stamp(day, tod) == [kind |-> "ts", day |-> day, tod |-> tod]

\* pd.to_datetime: text and date objects become midnight Timestamps
ToDatetime(v) == [kind |-> "ts", day |-> v.day, tod |-> IF v.kind = "ts" THEN v.tod ELSE 0]

\* .dt.to_period("W-SUN").dt.start_time
StartTime(ts) == [kind |-> "ts", day |-> WeekStart(ts.day), tod |-> 0]

\* .dt.date.astype(str)
DateText(ts) == [kind |-> "text", day |-> ts.day, tod |-> 0]

\* .dt.date
DateObject(ts) == [kind |-> "date", day |-> ts.day, tod |-> 0]

RECURSIVE GCD(_, _)
GCD(a, b) == IF b = 0 THEN a ELSE GCD(b, a % b)

Frac(n, d) == LET g == GCD(n, d) IN <<n \div g, d \div g>>

FracAdd(a, b) == Frac(a[1] * b[2] + b[1] * a[2], a[2] * b[2])

Valid(vals) == SelectSeq(vals, LAMBDA v : v # NaN)

\* "sum" skips NaN; the sum of no valid reading is 0.0
RECURSIVE AggSum(_)
AggSum(vals) ==
    IF vals = <<>> THEN Rat(0)
    ELSE IF Head(vals) = NaN THEN AggSum(Tail(vals))
    ELSE FracAdd(Head(vals), AggSum(Tail(vals)))

AggMeanOverAll(vals) ==
    IF Valid(vals) = <<>> THEN NaN
    ELSE LET t == AggSum(vals) IN Frac(t[1], t[2] * Len(vals))

\* "mean" skips NaN; the mean of no valid reading is NaN
AggMean(vals) ==
    IF Valid(vals) = <<>> THEN NaN
    ELSE LET t == AggSum(vals) IN Frac(t[1], t[2] * Len(Valid(vals)))

\* the week label of a row
WeekOf(r) == StartTime(ToDatetime(r.date))

CityRank(c) == CHOOSE i \in 1..Len(CityOrder) : CityOrder[i] = c

\* groupby sorts its keys: by city, then by week
KeyBefore(a, b) ==
    \/ CityRank(a[1]) < CityRank(b[1])
    \/ a[1] = b[1] /\ a[2] < b[2]

RECURSIVE SortedKeys(_)
SortedKeys(K) ==
    IF K = {} THEN <<>>
    ELSE LET k == CHOOSE x \in K : \A y \in K \ {x} : KeyBefore(x, y)
         IN  <<k>> \o SortedKeys(K \ {k})

\* one column of a frame, in frame order
Column(rows, f) == [i \in 1..Len(rows) |-> rows[i][f]]

\* the rows of one (city, week) group
CityWeekGroup(df, k) == SelectSeq(df, LAMBDA r : r.city = k[1] /\ WeekOf(r).day = k[2])

\* the rows of one week group
WeekGroup(df, k) == SelectSeq(df, LAMBDA r : WeekOf(r).day = k)

\* backfill_weekly.weekify with sum_cols = (prec,), mean_cols = (temp,)
weekify(df) ==
    IF df = <<>> THEN df
    ELSE LET keys == SortedKeys({<<r.city, WeekOf(r).day>> : r \in {df[i] : i \in 1..Len(df)}})
         IN  [i \in 1..Len(keys) |->
                [city |-> keys[i][1],
                 date |-> DateText(Stamp(keys[i][2], 0)),
                 prec |-> AggSum(Column(CityWeekGroup(df, keys[i]), "prec")),
                 temp |-> AggMean(Column(CityWeekGroup(df, keys[i]), "temp"))]]

RECURSIVE SortedWeeks(_)
SortedWeeks(K) ==
    IF K = {} THEN <<>>
    ELSE LET k == CHOOSE x \in K : \A y \in K \ {x} : x < y
         IN  <<k>> \o SortedWeeks(K \ {k})

\* script_ingest_real_data.weekify with agg = {temp: mean, prec: sum}: one
\* city's frame, grouped by week alone
ingest_weekify(df) ==
    IF df = <<>> THEN df
    ELSE LET keys == SortedWeeks({WeekOf(r).day : r \in {df[i] : i \in 1..Len(df)}})
         IN  [i \in 1..Len(keys) |->
                [date |-> DateObject(Stamp(keys[i], 0)),
                 temp |-> AggMean(Column(WeekGroup(df, keys[i]), "temp")),
                 prec |-> AggSum(Column(WeekGroup(df, keys[i]), "prec"))]]

\* ISO year-week-1 parsed with %G-W%V-%u: the Monday of the week
IsoMonday(w) == 7 * w

\* the date load_cases_from_opendatasus gives a week: its Monday minus one day
EpiWeekDate(w) == IsoMonday(w) - 1

DailyRows ==
    {[city |-> c, date |-> Stamp(d[1], d[2]), temp |-> t, prec |-> q] :
        c \in Cities, d \in DailyStamps, t \in Readings \cup {NaN}, q \in PrecReadings \cup {NaN}}

CityDailyRows ==
    {[date |-> Stamp(d[1], d[2]), temp |-> t, prec |-> q] :
        d \in DailyStamps, t \in Readings \cup {NaN}, q \in PrecReadings \cup {NaN}}

FramesOf(rows, n) == UNION {[1..m -> rows] : m \in 0..n}

InitFrame(n) ==
    /\ wk_kind \in {"backfill", "ingest"}
    /\ wk_raw \in IF wk_kind = "backfill" THEN FramesOf(DailyRows, n)
                  ELSE FramesOf(CityDailyRows, n)
    /\ wk_out = wk_raw
    /\ wk_prev = <<>>
    /\ passes = 0
    /\ stamped = {}

InitWeek ==
    /\ InitDb
    /\ InitConcIdle
    /\ InitNames
    /\ InitPredict
    /\ InitRun
    /\ InitLib
    /\ InitFrame(MaxRows)

Labels(writer, df) ==
    {[writer |-> writer, week |-> WeekStart(ToDatetime(df[i].date).day),
      date |-> WeekOf(df[i]).day] : i \in 1..Len(df)}

\* backfill_weekly: main() weekifies the loaded frame
backfill_weekify ==
    /\ wk_kind = "backfill"
    /\ passes < MaxPasses
    /\ wk_prev' = wk_out
    /\ wk_out' = weekify(wk_out)
    /\ passes' = passes + 1
    /\ stamped' = stamped \cup Labels("backfill", wk_out)
    /\ UNCHANGED <<dbVars, runVars, libVars, concVars, nameVars, predVars, wk_kind, wk_raw>>

\* script_ingest: fetch_weather_open_meteo weekifies the daily frame
fetch_weather_open_meteo ==
    /\ wk_kind = "ingest"
    /\ passes < MaxPasses
    /\ wk_prev' = wk_out
    /\ wk_out' = ingest_weekify(wk_out)
    /\ passes' = passes + 1
    /\ stamped' = stamped \cup Labels("ingest", wk_out)
    /\ UNCHANGED <<dbVars, runVars, libVars, concVars, nameVars, predVars, wk_kind, wk_raw>>

NextWeek == backfill_weekify \/ fetch_weather_open_meteo

SpecWeek == InitWeek /\ [][NextWeek]_vars

-----------------------------------------------------------------------------
(* The date labels of the four writers of the weekly tables *)

ObservedDays == {d[1] : d \in DailyStamps}

InitAnchor ==
    /\ InitDb
    /\ InitConcIdle
    /\ InitNames
    /\ InitPredict
    /\ InitRun
    /\ InitLib
    /\ InitFrame(1)

\* build_database: one city's daily rows resampled to W-SUN bins
build_db_resample ==
    \E d \in ObservedDays :
        /\ stamped' = stamped \cup
              {[writer |-> "build_db", week |-> ResampleLabel(d) - 6, date |-> ResampleLabel(d)]}
        /\ UNCHANGED <<dbVars, runVars, libVars, concVars, nameVars, predVars, wk_kind, wk_raw, wk_out, wk_prev, passes>>

\* script_ingest: one (ano, se) row of the epidemiological series is dated
load_cases_from_opendatasus ==
    \E w \in EpiWeeks :
        /\ stamped' = stamped \cup
              {[writer |-> "opendatasus", week |-> IsoMonday(w), date |-> EpiWeekDate(w)]}
        /\ UNCHANGED <<dbVars, runVars, libVars, concVars, nameVars, predVars, wk_kind, wk_raw, wk_out, wk_prev, passes>>

NextAnchor ==
    \/ backfill_weekify
    \/ fetch_weather_open_meteo
    \/ build_db_resample
    \/ load_cases_from_opendatasus

SpecAnchor == InitAnchor /\ [][NextAnchor]_vars

\* C8: every date a writer produces for the weekly tables falls on Sunday, and
\* rows dated for the same calendar week carry the same date whichever writer
\* produced them.
WrittenDatesOnSunday ==
    /\ \A s \in stamped : s.date % 7 = 6
    /\ \A s, t \in stamped : s.week = t.week => s.date = t.date

-----------------------------------------------------------------------------
(* City names: how they are stored and how a request finds them.
   A name is a sequence of characters; "o'" and "O'" stand for the letter o
   with an acute accent, lower and upper case. *)

CasePairs ==
    {<<"t", "T">>, <<"e", "E">>, <<"o", "O">>, <<"f", "F">>, <<"i", "I">>,
     <<"l", "L">>, <<"n", "N">>, <<"o'", "O'">>}

IsLetter(c) == \E p \in CasePairs : c \in {p[1], p[2]}

Lower(c) == IF \E p \in CasePairs : p[2] = c THEN (CHOOSE p \in CasePairs : p[2] = c)[1] ELSE c

Upper(c) == IF \E p \in CasePairs : p[1] = c THEN (CHOOSE p \in CasePairs : p[1] = c)[2] ELSE c

\* NFKD decomposition with the combining marks dropped
StripMark(c) == IF c = "o'" THEN "o" ELSE IF c = "O'" THEN "O" ELSE c

MapChars(s, F(_)) == [i \in 1..Len(s) |-> F(s[i])]

\* str.strip()
RECURSIVE LStrip(_)
LStrip(s) == IF s # <<>> /\ Head(s) = " " THEN LStrip(Tail(s)) ELSE s

RECURSIVE RStrip(_)
RStrip(s) == IF s # <<>> /\ s[Len(s)] = " " THEN RStrip(SubSeq(s, 1, Len(s) - 1)) ELSE s

Strip(s) == RStrip(LStrip(s))

\* re.sub(r"\s+", " ", s)
RECURSIVE CollapseSpaces(_)
CollapseSpaces(s) ==
    IF Len(s) < 2 THEN s
    ELSE IF s[1] = " " /\ s[2] = " " THEN CollapseSpaces(Tail(s))
    ELSE <<s[1]>> \o CollapseSpaces(Tail(s))

\* str.replace(a, b) for single characters
ReplaceChar(s, a, b) == [i \in 1..Len(s) |-> IF s[i] = a THEN b ELSE s[i]]

\* str.title(): a letter is upper-cased when no letter precedes it, else lower-cased
Title(s) ==
    [i \in 1..Len(s) |->
        IF i > 1 /\ IsLetter(s[i - 1]) THEN Lower(s[i]) ELSE Upper(s[i])]

\* backfill_weekly._norm_city_series: the city value a case row is stored under
norm_city_series(s) == Title(ReplaceChar(CollapseSpaces(Strip(s)), "_", " "))

\* backfill_weekly._city_from_filename: the city of a weather file
city_from_filename(s) == Title(Strip(ReplaceChar(ReplaceChar(s, "_", " "), "-", " ")))

\* backfill_weekly._canon
canon(s) == MapChars(Strip(CollapseSpaces(MapChars(s, StripMark))), Lower)

\* the slug the cities table pairs with a name: 'Teofilo Otoni' with the acute
\* accent is seeded with teofilo_otoni
Slug(s) == ReplaceChar(canon(ReplaceChar(s, "_", " ")), " ", "_")

teofilo_otoni == <<"t", "e", "o", "f", "i", "l", "o", "_", "o", "t", "o", "n", "i">>

Teofilo_Otoni_acute == <<"T", "e", "o'", "f", "i", "l", "o", " ", "O", "t", "o", "n", "i">>

\* city names as files and requests write them
RawNames ==
    {teofilo_otoni,
     Teofilo_Otoni_acute,
     <<"T", "E", "O", "F", "I", "L", "O", " ", "O", "T", "O", "N", "I">>,
     <<"t", "e", "o'", "f", "i", "l", "o", " ", " ", "o", "t", "o", "n", "i">>,
     <<" ", "T", "e", "o", "f", "i", "l", "o", " ", "O", "t", "o", "n", "i">>,
     <<"t", "e", "o", "f", "i", "l", "o", "-", "o", "t", "o", "n", "i">>,
     <<"l", "i", "n", "o">>}

\* load_cases_csv and upsert: the rows of a case file are stored under the
\* normalised city value
load_cases_csv ==
    \E raw \in RawNames :
        /\ ingested' = ingested \cup {raw}
        /\ cities_stored' = cities_stored \cup {norm_city_series(raw)}
        /\ UNCHANGED <<dbVars, runVars, libVars, concVars, weekVars, predVars, asked, answer>>

\* load_weather_csv on a file without a city column: the city is the file stem
load_weather_csv ==
    \E raw \in RawNames :
        /\ ingested' = ingested \cup {raw}
        /\ cities_stored' = cities_stored \cup {city_from_filename(raw)}
        /\ UNCHANGED <<dbVars, runVars, libVars, concVars, weekVars, predVars, asked, answer>>

\* app.query_weekly_cases: WHERE city = ?, and no rows when no stored city is
\* exactly the requested one
query_weekly_cases ==
    \E city \in RawNames \cup cities_stored :
        /\ asked' = city
        /\ answer' = IF city \in cities_stored THEN city ELSE <<>>
        /\ UNCHANGED <<dbVars, runVars, libVars, concVars, weekVars, predVars, ingested, cities_stored>>

NextNames == load_cases_csv \/ load_weather_csv \/ query_weekly_cases

SpecNames == Init /\ [][NextNames]_vars

\* C9: with a locality stored under the accented name, the names teofilo_otoni
\* and the accented name itself both resolve to it; in general, names with the
\* same slug are stored under one name and a request finds the stored name
\* that has the slug of the requested one.
SameSlugSameName ==
    /\ \A a, b \in cities_stored : Slug(a) = Slug(b) => a = b
    /\ asked # <<>> =>
          \A n \in cities_stored : Slug(n) = Slug(asked) => answer = n

-----------------------------------------------------------------------------
(* /api/predict and /api/data *)

MaxSeries == 4

MaxLoads == 2

\* weekly totals a city can have stored
WeeklyTotals == {-2, 3}

\* PredictRequest.last_weeks is any integer
LastWeeksVals == {-1, 2, 4, 12}

\* horizons a client asks for
Horizons == {1, 4}

\* values the network can output
ModelOutputs == {-1, 0, 2}

\* the fallback branches repeat their value 4 times
FallbackSteps == 4

\* train_model.py: the network ends in Dense(1)
ModelSteps == 1

\* the per-city CSV of DATA_DIR: absent or empty; with a date column and no
\* cases column; with date and cases columns; with cases and the date column
\* named data
CsvFiles == {"missing", "no cases column", "cases", "data column"}

CsvCases == <<3, 0>>

\* what can go wrong in the try block: nothing, an error before load_model
\* (tensorflow missing, scaler unreadable), an error in or after it
Faults == {"none", "before load", "after load"}

Zeros(n) == [i \in 1..n |-> 0]

Repeat(v, n) == [i \in 1..n |-> v]

Max(a, b) == IF a >= b THEN a ELSE b

Min(a, b) == IF a <= b THEN a ELSE b

SliceFromFront(seq, start) ==
    LET from == IF start < 0 THEN Max(0, Len(seq) + start) ELSE Min(start, Len(seq))
    IN  SubSeq(seq, 1, Len(seq) - from)

\* Python seq[start:]
SliceFrom(seq, start) ==
    LET from == IF start < 0 THEN Max(0, Len(seq) + start) ELSE Min(start, Len(seq))
    IN  SubSeq(seq, from + 1, Len(seq))

PadRight(seq, n) ==
    IF Len(seq) < n THEN seq \o Zeros(n - Len(seq))
    ELSE SliceFrom(seq, 0 - n)

\* pad on the left with zeros, or seq[-n:]
PadOrTruncate(seq, n) ==
    IF Len(seq) < n THEN Zeros(n - Len(seq)) \o seq
    ELSE SliceFrom(seq, 0 - n)

RECURSIVE SeqSum(_)
SeqSum(seq) == IF seq = <<>> THEN 0 ELSE Head(seq) + SeqSum(Tail(seq))

\* Python round() of n/d, d > 0, n >= 0: half goes to the even integer
Round(n, d) ==
    LET q == n \div d
        r == n % d
    IN  IF 2 * r < d THEN q
        ELSE IF 2 * r > d THEN q + 1
        ELSE IF q % 2 = 0 THEN q ELSE q + 1

\* mean of the last 4 values, or of all when there are fewer, rounded, floored
\* at zero and repeated; seq is not empty
NaiveForecast(seq) ==
    LET tail == IF Len(seq) >= 4 THEN SubSeq(seq, Len(seq) - 3, Len(seq)) ELSE seq
    IN  Repeat(Max(0, Round(SeqSum(tail), Len(tail))), FallbackSteps)

\* the date of the i-th stored week, as a day number
WeekDate(i) == 7 * (i - 1)

NoDataAnswerEmpty(csv) == [prediction_weeks |-> <<>>]

\* predict without database rows and without a CSV it can read cases from
NoDataAnswer(csv) ==
    IF csv = "missing" THEN [error |-> "no data"]
    ELSE IF csv = "data column" THEN [exception |-> "KeyError"]
    ELSE [error |-> "no cases column"]

\* a new week of the city is stored
store_week ==
    \E v \in WeeklyTotals :
        /\ Len(series) < MaxSeries
        /\ series' = Append(series, v)
        /\ UNCHANGED <<dbVars, runVars, libVars, concVars, weekVars, nameVars, model_file, req, resp,
                       call, model_loads, data_call, data_resp>>

\* train_model.py saves models/model.h5
save_model ==
    /\ model_file' = "model.h5"
    /\ UNCHANGED <<dbVars, runVars, libVars, concVars, weekVars, nameVars, series, req, resp,
                   call, model_loads, data_call, data_resp>>

\* data_min_ of the MinMaxScaler train_model.py saved; its data range is 1
ScalerMin == 1

\* scaler.transform when there is a scaler.pkl
ScaleIn(scaler, seq) == IF scaler THEN [i \in 1..Len(seq) |-> seq[i] - ScalerMin] ELSE seq

InverseAlways(scaler, p) == p + ScalerMin

\* scaler.inverse_transform when there is a scaler.pkl
InverseOut(scaler, p) == IF scaler THEN p + ScalerMin ELSE p

ClampNone(x) == x

\* max(0.0, float(x))
Clamp(x) == Max(0, x)

predict ==
    \E last_weeks \in LastWeeksVals, h \in Horizons,
       scaler \in IF model_file = "none" THEN {FALSE} ELSE BOOLEAN,
       \* the CSV is read only when the database has no rows of the city, and
       \* the network runs only when there is an artifact
       csv \in IF series = <<>> THEN CsvFiles ELSE {"missing"},
       out \in IF model_file = "none" THEN {0} ELSE ModelOutputs,
       fault \in IF model_file = "none" THEN {"none"} ELSE Faults :
        LET history == IF series # <<>> THEN series
                       ELSE IF csv = "cases" THEN CsvCases ELSE <<>>
            early == series = <<>> /\ csv # "cases"
            seq == IF early THEN <<>> ELSE PadOrTruncate(history, last_weeks)
            \* the network needs an input; np.mean of an empty seq is nan and
            \* round(nan) raises, in the else branch and again in the handler
            path == IF early THEN "none"
                    ELSE IF model_file = "none" THEN "no model"
                    ELSE IF fault = "none" /\ seq # <<>> THEN "model"
                    ELSE "except"
            loaded == path = "model" \/ (path = "except" /\ fault # "before load")
        IN  /\ req' = [city |-> "city", last_weeks |-> last_weeks, horizon |-> h]
            /\ call' = [records |-> series, csv |-> csv, seq |-> seq, path |-> path,
                        scaler |-> path = "model" /\ scaler,
                        inp |-> IF path = "model" THEN ScaleIn(scaler, seq) ELSE <<>>,
                        p_scaled |-> IF path = "model" THEN out ELSE 0]
            /\ model_loads' = IF loaded THEN Min(model_loads + 1, MaxLoads) ELSE model_loads
            /\ resp' = IF early THEN NoDataAnswer(csv)
                       ELSE IF path = "model"
                            THEN [prediction_weeks |->
                                    Repeat(Clamp(InverseOut(scaler, out)), ModelSteps)]
                       ELSE IF seq = <<>> THEN [exception |-> "ValueError"]
                       ELSE [prediction_weeks |-> NaiveForecast(seq)]
            /\ UNCHANGED <<dbVars, runVars, libVars, concVars, weekVars, nameVars, series, model_file,
                           data_call, data_resp>>

NextPredict == store_week \/ save_model \/ predict

SpecPredict == Init /\ [][NextPredict]_vars

Successful == resp # <<>> /\ "prediction_weeks" \in DOMAIN resp

\* C10: a successful forecast call returns dates, yhat, yhat_p10 and yhat_p90,
\* each with as many elements as the horizon asked for, on the model path and on
\* the fallback paths.
ForecastArraysHaveHorizonLength ==
    Successful =>
        \A k \in {"dates", "yhat", "yhat_p10", "yhat_p90"} :
            k \in DOMAIN resp /\ Len(resp[k]) = req.horizon

\* the rows of the per-city CSV as records
CsvRows(csv) ==
    IF csv = "cases"
    THEN [i \in 1..Len(CsvCases) |-> [date |-> WeekDate(i), cases |-> CsvCases[i]]]
    ELSE [i \in 1..Len(CsvCases) |-> [date |-> WeekDate(i), temp |-> 25]]

get_data ==
    \E csv \in IF series = <<>> THEN CsvFiles ELSE {"missing"} :
        /\ data_call' = [records |-> series, csv |-> csv]
        /\ data_resp' =
              IF series # <<>>
              THEN [data |-> [i \in 1..Len(series) |->
                                [date |-> WeekDate(i), total_cases |-> series[i]]]]
              ELSE IF csv = "missing" THEN [error |-> "no data", data |-> <<>>]
              \* df.sort_values("date") on a frame whose date column is named data
              ELSE IF csv = "data column" THEN [exception |-> "KeyError"]
              ELSE [data |-> CsvRows(csv)]
        /\ UNCHANGED <<dbVars, runVars, libVars, concVars, weekVars, nameVars, series, model_file, req, resp,
                       call, model_loads>>

NextApi == store_week \/ predict \/ get_data

SpecApi == Init /\ [][NextApi]_vars

\* the history the last predict call worked from
CallHistory ==
    IF call.records # <<>> THEN call.records
    ELSE IF call.csv = "cases" THEN CsvCases ELSE <<>>

\* the last predict call had data and fewer rows of it than last_weeks
ShortHistory == call.path # "none" /\ Len(CallHistory) < req.last_weeks

NaiveFallbackTagged ==
    call.path = "no model" =>
        /\ "error" \notin DOMAIN resp
        /\ "prediction_weeks" \in DOMAIN resp
        /\ DOMAIN resp \ {"prediction_weeks"} # {}

\* C13: whenever the city has data, whatever last_weeks is and whatever goes
\* wrong with the model, predict answers with a prediction and no exception
\* escapes.
PredictNeverRaises ==
    call.path # "none" => "prediction_weeks" \in DOMAIN resp

\* C15: a successful forecast carries one date per forecast step, the first a
\* week after the last observed week and each 7 days after the one before.
ForecastDatesWeekly ==
    Successful =>
        /\ "dates" \in DOMAIN resp
        /\ Len(resp.dates) = Len(resp.prediction_weeks)
        /\ \A i \in 1..Len(resp.dates) :
              resp.dates[i] = WeekDate(Len(CallHistory)) + 7 * i

\* C17: get_data never raises and always answers with a data list whose
\* entries each have a date.
GetDataReturnsDatedRows ==
    data_resp # <<>> =>
        /\ "data" \in DOMAIN data_resp
        /\ \A i \in 1..Len(data_resp.data) : "date" \in DOMAIN data_resp.data[i]

\* C18: over any sequence of forecast calls the model artifact is loaded at
\* most once.
ModelLoadedOnce == model_loads <= 1

\* the locality has no database rows and no CSV, or a CSV without a cases column
NoUsable(c) == c.records = <<>> /\ c.csv \in {"missing", "no cases column"}

\* C14 as stated: without usable data both operations answer with an explicit
\* error and no success payload.
NoDataIsAnError ==
    /\ req # <<>> /\ NoUsable(call) =>
          "error" \in DOMAIN resp /\ "prediction_weeks" \notin DOMAIN resp
    /\ data_call # <<>> /\ NoUsable(data_call) =>
          "error" \in DOMAIN data_resp /\ data_resp.data = <<>>

\* C14 as amended: without database rows, predict answers with an explicit
\* error when the CSV is absent or has no cases column; get_data answers with
\* an explicit error and an empty list when the CSV is absent, and with the
\* CSV's own rows when the CSV has no cases column.
NoDataErrorOrCsvRows ==
    /\ req # <<>> /\ NoUsable(call) =>
          "error" \in DOMAIN resp /\ "prediction_weeks" \notin DOMAIN resp
    /\ data_call # <<>> /\ NoUsable(data_call) =>
          IF data_call.csv = "missing"
          THEN "error" \in DOMAIN data_resp /\ data_resp.data = <<>>
          ELSE /\ "error" \notin DOMAIN data_resp
               /\ data_resp.data = CsvRows(data_call.csv)
               /\ data_resp.data # <<>>

\* both operations were asked about a city whose CSV has no cases column
NoDataErrorOrCsvRowsWitness ==
    /\ req # <<>> /\ NoUsable(call) /\ call.csv = "no cases column"
    /\ resp = [error |-> "no cases column"]
    /\ data_call # <<>> /\ NoUsable(data_call) /\ data_call.csv = "no cases column"
    /\ Len(data_resp.data) = 2

-----------------------------------------------------------------------------
(* What one weekify pass makes of each 7-day bucket *)

\* the 7-day windows the loaded rows can fall in, by index
Buckets == {d[1] \div 7 : d \in DailyStamps}

\* script_ingest's frames hold one city and have no city column
OfCity(r, c) == wk_kind = "ingest" \/ r.city = c

\* the loaded rows of a city in a bucket, and the output rows dated in it
BucketRows(c, b) ==
    {i \in 1..Len(wk_raw) : OfCity(wk_raw[i], c) /\ wk_raw[i].date.day \div 7 = b}

OutRows(c, b) ==
    {j \in 1..Len(wk_out) : OfCity(wk_out[j], c) /\ wk_out[j].date.day \div 7 = b}

\* the readings of a column that are present, among the rows I
Present(I, f) == {i \in I : wk_raw[i][f] # NaN}

\* their total (the readings loaded are whole numbers)
Total(I, f) == SumOver(Present(I, f), [i \in Present(I, f) |-> wk_raw[i][f][1]])

-----------------------------------------------------------------------------
(* A whole run of backfill_weekly.main *)

MaxFiles == 2

NoDateColumn == "no date column"

\* what load_cases_csv and weekify make of the case source: the weekly frame,
\* or nothing when the source has no column named like a date
Unreadable == [kind |-> NoDateColumn, rows |-> <<>>]

Loaded(rows) == [kind |-> "ok", rows |-> rows]

CasesSources == {Unreadable} \cup {Loaded(df) : df \in {d \in CasesFrames : Len(d) <= 1}}

\* the city whose station files the run is given
StationCity == CityOrder[1]

\* the daily rows of a station file: its readings of the day, each present or not
RunRows ==
    {r \in DailyRows :
        r.city = StationCity /\ r.date = Stamp(SampleDay, 1) /\ r.temp # Rat(26)}

\* what load_weather_csv makes of a weather file
WeatherSources == {Unreadable} \cup {Loaded(<<r>>) : r \in RunRows}

WeatherFileLists == UNION {[1..n -> WeatherSources] : n \in 0..MaxFiles}

\* "for w in weather_paths: try: frames.append(load_weather_csv(w)) except ...",
\* then pd.concat(frames): the rows of the files that loaded, in order
RECURSIVE ConcatLoaded(_)
ConcatLoaded(files) ==
    IF files = <<>> THEN <<>>
    ELSE IF Head(files).kind = NoDateColumn THEN ConcatLoaded(Tail(files))
    ELSE Head(files).rows \o ConcatLoaded(Tail(files))

\* the weekly frame as upsert_weather_weekly binds it: the date text is the key
WeeklyPayload(wk) ==
    [cols |-> {"temp", "prec"},
     rows |-> [i \in 1..Len(wk) |->
                [city |-> wk[i].city, date |-> wk[i].date.day,
                 temp |-> wk[i].temp, prec |-> wk[i].prec]]]

\* the (city, week, field) of which a daily frame has rows and no reading
MissingIn(df) ==
    {<<c, w, f>> \in Cities \X {WeekStart(SampleDay)} \X {"temp", "prec"} :
        /\ \E i \in 1..Len(df) : df[i].city = c /\ WeekStart(df[i].date.day) = w
        /\ \A i \in 1..Len(df) :
              (df[i].city = c /\ WeekStart(df[i].date.day) = w) => df[i][f] = NaN}

\* main() from "with sqlite3.connect(DB_PATH) as con" to the end of the block,
\* on a database whose schema ensure_schema has already brought up to date (its
\* call at the head of the block then changes nothing): the case source is
\* loaded outside any handler, each weather file inside one
main ==
    \E src \in CasesSources, files \in WeatherFileLists :
        /\ CasesWritable
        /\ weatherExists
        /\ LET raised == src.kind = NoDateColumn
               cases == src.rows
               met_df == ConcatLoaded(files)
               wk_weather == WeeklyPayload(weekify(met_df))
               casesWork == IF raised THEN weekly_cases
                            ELSE ExecCases(weekly_cases, cases, Len(cases))
               weatherWork == IF raised \/ met_df = <<>> THEN weather_weekly
                              ELSE ExecWeather(weather_weekly, wk_weather, Len(wk_weather.rows))
           IN  /\ weekly_cases' = ConnExit(weekly_cases, casesWork, raised)
               /\ weather_weekly' = ConnExit(weather_weekly, weatherWork, raised)
               /\ last' = [op |-> "main",
                           outcome |-> IF raised THEN "error" ELSE "ok",
                           written |-> 0, hits |-> 0]
               /\ latest' = IF raised THEN latest
                            ELSE [k \in DOMAIN latest |->
                                    IF \E i \in 1..Len(cases) : KeyOf(cases[i]) = k
                                    THEN (CHOOSE r \in {cases[i] : i \in 1..Len(cases)} :
                                            KeyOf(r) = k).cases
                                    ELSE latest[k]]
               /\ run' = [cases |-> src.kind,
                          weather |-> [i \in 1..Len(files) |-> files[i].kind],
                          cases_keys |-> IF raised THEN {}
                                         ELSE {KeyOf(cases[i]) : i \in 1..Len(cases)},
                          weather_keys |-> {<<met_df[i].city, WeekStart(met_df[i].date.day)>> :
                                              i \in 1..Len(met_df)},
                          missing |-> MissingIn(met_df),
                          outcome |-> IF raised THEN "ValueError" ELSE "ok"]
        /\ UNCHANGED <<casesCols, casesUnique, weatherExists>>
        /\ UNCHANGED <<concVars, weekVars, nameVars, predVars, libVars>>

NextRun == ensure_schema \/ main

SpecRun == Init /\ [][NextRun]_vars

\* a source of the last run had no date column
SchemaMismatch ==
    run.cases = NoDateColumn \/ \E i \in 1..Len(run.weather) : run.weather[i] = NoDateColumn

\* C16: a run with a source that has no date-like column, case source or
\* weather file, does not fail: it ends normally and every key carried by its
\* other sources is stored in its table.
SchemaMismatchSkipsSource ==
    SchemaMismatch =>
        /\ run.outcome = "ok"
        /\ \A k \in run.cases_keys : k \in KeysOf(weekly_cases)
        /\ \A k \in run.weather_keys : k \in KeysOf(weather_weekly)

\* the stored row of a key, when there is exactly one
StoredOf(t, k) == CHOOSE e \in DOMAIN t : KeyOf(e) = k

\* C20: a run leaves a stored non-null temp or prec of a (city, week) as it was
\* when all of the run's readings of that field for that week are missing.
MissingReadingsKeepStored ==
    [][\A e \in DOMAIN weather_weekly, f \in {"temp", "prec"} :
          (e[f] # NaN /\ <<e.city, e.date, f>> \in run'.missing /\ run'.outcome = "ok")
              => StoredOf(weather_weekly', KeyOf(e))[f] = e[f]]_vars

-----------------------------------------------------------------------------
(* backfill_weekly._parse_dates *)

MaxDates == 3

\* NaT of a datetime column
NaT == <<0, 0>>

\* the cells of a date column: the text a/b/2024, or text that is no date
\* (a = 0)
DateCells == {[a |-> 3, b |-> 4], [a |-> 13, b |-> 4], [a |-> 0, b |-> 0]}

\* pd.to_datetime(series, errors="coerce", dayfirst=...) of one cell, as
\* <<month, day>>: the convention asked for when the text fits it. When it does
\* not, dateutil swaps the two fields, a strict format match gives NaT: which
\* of the two depends on the installed pandas
ToDate(cell, dayfirst, lenient) ==
    LET month == IF dayfirst THEN cell.b ELSE cell.a
        day == IF dayfirst THEN cell.a ELSE cell.b
    IN  IF cell.a = 0 THEN NaT
        ELSE IF month <= 12 THEN <<month, day>>
        ELSE IF lenient /\ day <= 12 THEN <<day, month>>
        ELSE NaT

\* d.isna().mean() > 0.5
MostlyNaT(d) == 2 * Cardinality({i \in 1..Len(d) : d[i] = NaT}) > Len(d)

\* the text with everything but digits, "-" and "W" removed, parsed again:
\* the digits of a/b/2024 run together, and whether that parses (to some date)
\* depends on the installed pandas
ToDateStripped(cell, stripped) ==
    IF cell.a # 0 /\ stripped THEN <<1, 1>> ELSE NaT

FirstPassOnly(col, lenient, stripped) ==
    [i \in 1..Len(col) |-> ToDate(col[i], FALSE, lenient)]

\* backfill_weekly._parse_dates
ParseDates(col, lenient, stripped) ==
    LET d1 == [i \in 1..Len(col) |-> ToDate(col[i], FALSE, lenient)]
        d == IF MostlyNaT(d1)
             THEN [i \in 1..Len(col) |-> ToDate(col[i], TRUE, lenient)]
             ELSE d1
    IN  [i \in 1..Len(col) |->
            IF d[i] = NaT THEN ToDateStripped(col[i], stripped) ELSE d[i]]

InitDates ==
    /\ InitDb
    /\ InitConcIdle
    /\ InitWeekIdle
    /\ InitNames
    /\ InitPredict
    /\ InitRun
    /\ \E col \in UNION {[1..n -> DateCells] : n \in 0..MaxDates},
          lenient \in BOOLEAN, stripped \in BOOLEAN :
            dates = [NoDates EXCEPT !.series = col, !.lenient = lenient,
                                    !.stripped = stripped]
    /\ feat = NoFeat
    /\ detect = NoDetect
    /\ pg = NoIngest
    /\ climate_data = NoClimate

_parse_dates ==
    /\ ~dates.done
    /\ dates' = [dates EXCEPT
                    !.first = FirstPassOnly(dates.series, dates.lenient, dates.stripped),
                    !.out = ParseDates(dates.series, dates.lenient, dates.stripped),
                    !.done = TRUE]
    /\ UNCHANGED <<dbVars, runVars, concVars, weekVars, nameVars, predVars, feat, detect, pg, climate_data>>

NextDates == _parse_dates

SpecDates == InitDates /\ [][NextDates]_vars

\* C21: every date that parsed in the first (month-first) pass has its
\* first-pass value in the result of _parse_dates, whatever fraction of the
\* column failed that pass.
FirstPassValuesKept ==
    dates.done =>
        \A i \in 1..Len(dates.series) :
            dates.first[i] # NaT => dates.out[i] = dates.first[i]

-----------------------------------------------------------------------------
(* make_features and train_lstm_global *)

MaxWeeks == 5

\* range(1, 13) in make_features, LOOKBACK and HORIZON in train_lstm_global,
\* scaled to the series length
MaxLag == 2

Lookback == 2

HorizonSteps == 1

Lags == 1..MaxLag

FeatDates == {7 * w : w \in 0..(MaxWeeks - 1)}

\* the case count stored for a key: a different one for every key
CasesAt(c, d) == 100 * CityRank(c) + d

\* the stores the feature builder can find: any set of weekly case rows, and
\* for each city either no weather rows or one for each of its weeks
FeatureStores ==
    {[keys |-> K, wet |-> W] : K \in SUBSET (Cities \X FeatDates), W \in SUBSET Cities}

InitFeatures ==
    /\ InitConcIdle
    /\ InitWeekIdle
    /\ InitNames
    /\ InitPredict
    /\ InitRun
    /\ InitLib
    /\ casesCols = {"city", "date", "cases", "total_cases"}
    /\ casesUnique = TRUE
    /\ weatherExists = TRUE
    /\ last = [op |-> "none", outcome |-> "none", written |-> 0, hits |-> 0]
    /\ latest = NoBatch
    /\ \E st \in FeatureStores :
          /\ weekly_cases = SetToBag({[city |-> k[1], date |-> k[2], cases |-> CasesAt(k[1], k[2]),
                                       total_cases |-> CasesAt(k[1], k[2])] : k \in st.keys})
          /\ weather_weekly = SetToBag({[city |-> k[1], date |-> k[2], temp |-> Rat(25),
                                         prec |-> Rat(1), umid |-> NaN] :
                                            k \in {x \in st.keys : x[1] \in st.wet}})

\* cases.merge(meteo, on=[city, date], how="left").sort_values([city, date])
MergedRows ==
    LET keys == SortedKeys(KeysOf(weekly_cases))
    IN  [i \in 1..Len(keys) |->
            LET c == CHOOSE e \in DOMAIN weekly_cases : KeyOf(e) = keys[i]
                w == {e \in DOMAIN weather_weekly : KeyOf(e) = keys[i]}
            IN  [city |-> c.city, date |-> c.date, cases |-> c.cases,
                 temp |-> IF w = {} THEN NaN ELSE (CHOOSE e \in w : TRUE).temp]]

\* the position of row i within its city's group
GroupPos(df, i) == Cardinality({j \in 1..i : df[j].city = df[i].city})

\* df.groupby("city")[col].shift(L) at row i: the value L rows up in the same
\* city's group, NaN for the first L rows of the group
Shift(df, f, L, i, none) ==
    IF GroupPos(df, i) > L THEN df[i - L][f] ELSE none

\* make_features.add_lags for cases (lags 1..MaxLag) and temp (lag 1)
add_lags(df) ==
    [i \in 1..Len(df) |->
        [city |-> df[i].city, date |-> df[i].date, cases |-> df[i].cases, temp |-> df[i].temp,
         cases_lag |-> [L \in Lags |-> Shift(df, "cases", L, i, NULLINT)],
         temp_lag1 |-> Shift(df, "temp", 1, i, NaN)]]

\* a row with a missing field
HasNa(r) ==
    \/ r.cases = NULLINT
    \/ r.temp = NaN
    \/ r.temp_lag1 = NaN
    \/ \E L \in Lags : r.cases_lag[L] = NULLINT

DropNaKeepAll(df) == df

\* df.dropna().reset_index(drop=True)
DropNa(df) == SelectSeq(df, LAMBDA r : ~HasNa(r))

\* train_lstm_global.make_windows over the kept rows of all cities in a row
make_windows(df, lookback, horizon) ==
    [i \in 1..Max(0, Len(df) - lookback - horizon + 1) |->
        [x |-> SubSeq(df, i, i + lookback - 1),
         y |-> Column(SubSeq(df, i + lookback, i + lookback + horizon - 1), "cases")]]

\* make_features.main
make_features ==
    /\ feat.step = "none"
    /\ feat' = [feat EXCEPT !.rows = add_lags(MergedRows), !.step = "features"]
    /\ UNCHANGED <<dbVars, runVars, concVars, weekVars, nameVars, predVars, dates, detect, pg, climate_data>>

\* train_lstm_global.main up to make_windows
train_lstm_global ==
    /\ feat.step = "features"
    /\ LET df == DropNa(feat.rows)
       IN  feat' = [feat EXCEPT !.kept = df,
                                !.windows = make_windows(df, Lookback, HorizonSteps),
                                !.step = "windows"]
    /\ UNCHANGED <<dbVars, runVars, concVars, weekVars, nameVars, predVars, dates, detect, pg, climate_data>>

NextFeatures == make_features \/ train_lstm_global

SpecFeatures == InitFeatures /\ [][NextFeatures]_vars

\* the cases stored for city c at date d, or nothing
StoredCases(c, d) ==
    IF <<c, d>> \in KeysOf(weekly_cases)
    THEN (CHOOSE e \in DOMAIN weekly_cases : KeyOf(e) = <<c, d>>).cases
    ELSE NULLINT

\* C22: the lag-k cases of the feature row of (c, d) is the cases stored for
\* the same city c at d minus k weeks, and undefined when that week is not
\* stored, for every k in 1..MaxLag and also when the city's series has gaps.
LagIsSameCityWeeksBack ==
    feat.step # "none" =>
        \A i \in 1..Len(feat.rows), k \in Lags :
            feat.rows[i].cases_lag[k] = StoredCases(feat.rows[i].city, feat.rows[i].date - 7 * k)
\* C23: the feature frame has exactly one row for every stored weekly case
\* row, those with undefined lags included, and no window train_lstm_global
\* builds contains a row with an undefined lag.
FeaturesKeepAllWindowsDropUndefined ==
    /\ feat.step # "none" =>
          /\ Len(feat.rows) = Cardinality(KeysOf(weekly_cases))
          /\ \A k \in KeysOf(weekly_cases) :
                Cardinality({i \in 1..Len(feat.rows) :
                    feat.rows[i].city = k[1] /\ feat.rows[i].date = k[2]}) = 1
    /\ feat.step = "windows" =>
          \A n \in 1..Len(feat.windows) :
              \A i \in 1..Len(feat.windows[n].x) :
                  /\ feat.windows[n].x[i].temp_lag1 # NaN
                  /\ \A L \in Lags : feat.windows[n].x[i].cases_lag[L] # NULLINT

\* windows were built from a feature frame that kept rows with undefined lags
FeaturesKeepAllWindowsDropUndefinedWitness ==
    /\ feat.step = "windows"
    /\ feat.windows # <<>>
    /\ \E i \in 1..Len(feat.rows) : \E L \in Lags : feat.rows[i].cases_lag[L] = NULLINT
    /\ Len(feat.kept) < Len(feat.rows)

-----------------------------------------------------------------------------
(* The column detection of backfill_weekly.load_weather_csv *)

(* The header names of an INMET daily file, as _canon leaves them (lower case,
   spaces collapsed); "deg" stands for the degree sign. *)

\* 'Data Medicao'
data_medicao ==
    <<"d", "a", "t", "a", " ", "m", "e", "d", "i", "c", "a", "o">>

\* 'PRECIPITACAO TOTAL, DIARIO (AUT)(mm)'
precipitacao_total ==
    <<"p", "r", "e", "c", "i", "p", "i", "t", "a", "c", "a", "o", " ", "t", "o", "t", "a",
      "l", ",", " ", "d", "i", "a", "r", "i", "o", " ", "(", "a", "u", "t", ")", "(", "m",
      "m", ")">>

\* 'TEMPERATURA MEDIA, DIARIA (AUT)(deg C)'
temperatura_media ==
    <<"t", "e", "m", "p", "e", "r", "a", "t", "u", "r", "a", " ", "m", "e", "d", "i", "a",
      ",", " ", "d", "i", "a", "r", "i", "a", " ", "(", "a", "u", "t", ")", "(", "deg",
      "c", ")">>

\* 'TEMPERATURA DO PONTO DE ORVALHO MEDIA DIARIA (AUT)(deg C)'
temperatura_orvalho ==
    <<"t", "e", "m", "p", "e", "r", "a", "t", "u", "r", "a", " ", "d", "o", " ", "p", "o",
      "n", "t", "o", " ", "d", "e", " ", "o", "r", "v", "a", "l", "h", "o", " ", "m", "e",
      "d", "i", "a", " ", "d", "i", "a", "r", "i", "a", " ", "(", "a", "u", "t", ")", "(",
      "deg", "c", ")">>

\* 'UMIDADE RELATIVA DO AR, MEDIA DIARIA (AUT)(%)'
umidade_relativa ==
    <<"u", "m", "i", "d", "a", "d", "e", " ", "r", "e", "l", "a", "t", "i", "v", "a", " ",
      "d", "o", " ", "a", "r", ",", " ", "m", "e", "d", "i", "a", " ", "d", "i", "a", "r",
      "i", "a", " ", "(", "a", "u", "t", ")", "(", "%", ")">>

HeaderNames ==
    {data_medicao, precipitacao_total, temperatura_media, temperatura_orvalho,
     umidade_relativa}

\* the keywords of the detection loops
kw_data == <<"d", "a", "t", "a">>

kw_date == <<"d", "a", "t", "e">>

kw_temperatura == <<"t", "e", "m", "p", "e", "r", "a", "t", "u", "r", "a">>

kw_tmed == <<"t", "m", "e", "d">>

kw_temp == <<"t", "e", "m", "p">>

kw_orvalho == <<"o", "r", "v", "a", "l", "h", "o">>

kw_precipitacao == <<"p", "r", "e", "c", "i", "p", "i", "t", "a", "c", "a", "o">>

kw_chuva == <<"c", "h", "u", "v", "a">>

kw_prcp == <<"p", "r", "c", "p">>

kw_mm == <<"(", "m", "m", ")">>

kw_umidade == <<"u", "m", "i", "d", "a", "d", "e">>

kw_umid == <<"u", "m", "i", "d">>

kw_ur == <<"u", "r">>

kw_pct == <<"%", ")">>

DateKeys == {kw_data, kw_date}

TempKeys == {kw_temperatura, kw_tmed, kw_temp}

PrecKeys == {kw_precipitacao, kw_chuva, kw_prcp, kw_mm}

UmidKeys == {kw_umidade, kw_umid, kw_ur, kw_pct}

\* "k in low"
Contains(low, k) ==
    \E i \in 0..(Len(low) - Len(k)) : SubSeq(low, i + 1, i + Len(k)) = k

\* "for orig, low in lower.items(): if any(k in low for k in keys): ...; break":
\* the first column with one of the keywords and none of the excluded words,
\* 0 for None
FirstColumn(columns, keys, excluded) ==
    LET hits == {i \in 1..Len(columns) :
                    /\ \E k \in keys : Contains(columns[i], k)
                    /\ \A x \in excluded : ~Contains(columns[i], x)}
    IN  IF hits = {} THEN 0 ELSE CHOOSE i \in hits : \A j \in hits : i <= j

\* the headers of a file: some of the names, in any order
Headers ==
    {h \in UNION {[1..n -> HeaderNames] : n \in 0..Cardinality(HeaderNames)} :
        \A i, j \in 1..Len(h) : i # j => h[i] # h[j]}

InitDetect ==
    /\ InitDb
    /\ InitConcIdle
    /\ InitWeekIdle
    /\ InitNames
    /\ InitPredict
    /\ InitRun
    /\ dates = NoDates
    /\ feat = NoFeat
    /\ pg = NoIngest
    /\ climate_data = NoClimate
    /\ \E h \in Headers : detect = [NoDetect EXCEPT !.columns = h]

\* load_weather_csv from "lower = ..." to the three detection loops; a file
\* without a date column raises before them
detect_columns ==
    /\ ~detect.done
    /\ FirstColumn(detect.columns, DateKeys, {}) # 0
    /\ detect' = [detect EXCEPT
                    !.temp_col = FirstColumn(detect.columns, TempKeys, {kw_orvalho}),
                    !.prec_col = FirstColumn(detect.columns, PrecKeys, {}),
                    !.umid_col = FirstColumn(detect.columns, UmidKeys, {}),
                    !.done = TRUE]
    /\ UNCHANGED <<dbVars, runVars, concVars, weekVars, nameVars, predVars, dates, feat, pg,
                   climate_data>>

NextDetect == detect_columns

SpecDetect == InitDetect /\ [][NextDetect]_vars

\* C24: the columns load_weather_csv takes for temperature, precipitation and
\* humidity are pairwise different columns; the humidity column is no
\* temperature or dew-point column and the temperature column is no dew-point
\* column.
DetectedColumnsDistinct ==
    detect.done =>
        /\ detect.temp_col # 0 /\ detect.umid_col # 0 => detect.temp_col # detect.umid_col
        /\ detect.temp_col # 0 /\ detect.prec_col # 0 => detect.temp_col # detect.prec_col
        /\ detect.prec_col # 0 /\ detect.umid_col # 0 => detect.prec_col # detect.umid_col
        /\ detect.umid_col # 0 =>
              /\ ~Contains(detect.columns[detect.umid_col], kw_temperatura)
              /\ ~Contains(detect.columns[detect.umid_col], kw_orvalho)
        /\ detect.temp_col # 0 => ~Contains(detect.columns[detect.temp_col], kw_orvalho)

-----------------------------------------------------------------------------
(* cases and total_cases of the SQLite weekly_cases *)

\* C29: once ensure_schema has given weekly_cases both columns, every stored
\* row has total_cases equal to cases, after any sequence of build_db,
\* ensure_schema and upsert_weekly_cases.
TotalCasesEqualsCases ==
    {"cases", "total_cases"} \subseteq casesCols =>
        \A e \in DOMAIN weekly_cases : e.total_cases = e.cases

\* a row build_db wrote and ensure_schema migrated, next to a row an upsert
\* rewrote
TotalCasesEqualsCasesWitness ==
    /\ {"cases", "total_cases"} \subseteq casesCols
    /\ \E e \in DOMAIN weekly_cases :
          e.date = ResampleLabel(SampleDay) /\ e.cases # NULLINT
    /\ \E e \in DOMAIN weekly_cases : e.date = WeekStart(SampleDay)
    /\ last.op = "upsert_weekly_cases"
    /\ last.hits > 0

-----------------------------------------------------------------------------
(* The values predict returns and the input it gives the network *)

\* C25: every value of a returned prediction_weeks list is a number >= 0, on
\* the model path with or without scaler and on both fallback paths.
PredictionsNonNegative ==
    Successful => \A i \in 1..Len(resp.prediction_weeks) : resp.prediction_weeks[i] >= 0

\* a negative network output without scaler, floored at zero
PredictionsNonNegativeWitness ==
    /\ Successful
    /\ call.path = "model"
    /\ ~call.scaler
    /\ call.p_scaled < 0
    /\ resp.prediction_weeks = <<0>>

\* C26: for last_weeks >= 1 and every stored history of n weeks, the sequence
\* built for the network has exactly last_weeks elements and ends with the
\* most recent min(last_weeks, n) stored values in date order; the network is
\* given that sequence, value by value through the scaler when there is one.
ModelInputIsRecentHistory ==
    (req # <<>> /\ call.records # <<>> /\ req.last_weeks >= 1) =>
        LET n == Len(call.records)
            m == Min(req.last_weeks, n)
        IN  /\ Len(call.seq) = req.last_weeks
            /\ \A j \in 1..m : call.seq[req.last_weeks - m + j] = call.records[n - m + j]
            /\ call.path = "model" =>
                  /\ Len(call.inp) = req.last_weeks
                  /\ \A i \in 1..req.last_weeks :
                        call.inp[i] = IF call.scaler THEN call.seq[i] - ScalerMin
                                      ELSE call.seq[i]

\* the network was given the last two of three stored weeks
ModelInputIsRecentHistoryWitness ==
    /\ req # <<>>
    /\ req.last_weeks = 2
    /\ call.path = "model"
    /\ call.records = <<3, -2, 3>>
    /\ call.inp = <<-2, 3>>

\* C27: on the model path the output is inverse-transformed exactly when the
\* input was transformed: scaled input goes with inverted output, unscaled
\* input with the output as the network gave it.
ScalerAppliedBothWaysOrNot ==
    call.path = "model" =>
        IF call.inp = [i \in 1..Len(call.seq) |-> call.seq[i] - ScalerMin]
        THEN resp.prediction_weeks = Repeat(Max(0, call.p_scaled + ScalerMin), ModelSteps)
        ELSE /\ call.inp = call.seq
             /\ resp.prediction_weeks = Repeat(Max(0, call.p_scaled), ModelSteps)

\* a run with the scaler: input shifted, output shifted back
ScalerAppliedBothWaysOrNotWitness ==
    /\ call.path = "model"
    /\ call.scaler
    /\ call.seq = <<3>>
    /\ call.inp = <<2>>
    /\ call.p_scaled = 2
    /\ resp.prediction_weeks = <<3>>

-----------------------------------------------------------------------------
(* script_ingest_real_data: the rows its upserts bind *)

MaxFrame == 3

\* a weekly frame the aggregation returns: one row per week, labelled
\* 0, 1, 2, ... (groupby(..., as_index=False) gives a RangeIndex)
WeeklyFrames(vals) ==
    UNION {{[i \in 1..n |-> [label |-> i - 1, date |-> 7 * (i - 1), value |-> v[i]]] :
                v \in [1..n -> vals]} : n \in 0..MaxFrame}

\* out[out["date"] >= start]: the rows before start are dropped and the rows
\* left keep their labels
FromStart(wk, start) == SelectSeq(wk, LAMBDA r : r.date >= start)

\* wk.loc[i, col]: the row LABELLED i, none when no row has that label
Loc(wk, i) == {r \in {wk[j] : j \in 1..Len(wk)} : r.label = i}

\* "for i, d in enumerate(wk["date"])": i counts positions from 0; the tuple
\* pairs the date at position i with the values of the row labelled i
BoundRows(wk) ==
    [p \in 1..Len(wk) |->
        IF Loc(wk, p - 1) = {} THEN [error |-> "KeyError"]
        ELSE [date |-> wk[p].date, value |-> (CHOOSE r \in Loc(wk, p - 1) : TRUE).value]]

Raises(rows) == \E p \in 1..Len(rows) : "error" \in DOMAIN rows[p]

\* INSERT ... ON CONFLICT (city_id, date) DO UPDATE for one city
PgUpsert(t, rows) ==
    {r \in t : \A p \in 1..Len(rows) : rows[p].date # r.date}
        \cup {rows[p] : p \in 1..Len(rows)}

\* the upsert of one city's frame: the list of tuples is built first, and an
\* exception while building it leaves the table alone
IngestUpsert(op, wk) ==
    LET rows == BoundRows(wk)
    IN  [wk |-> wk,
         bound |-> IF Raises(rows) THEN <<>> ELSE rows,
         outcome |-> IF wk = <<>> THEN "noop" ELSE IF Raises(rows) THEN "KeyError" ELSE "ok",
         op |-> op,
         weekly_cases |-> IF op = "upsert_weekly_cases" /\ ~Raises(rows)
                          THEN PgUpsert(pg.weekly_cases, rows) ELSE pg.weekly_cases,
         weather_weekly |-> IF op = "upsert_weather_weekly" /\ ~Raises(rows)
                            THEN PgUpsert(pg.weather_weekly, rows) ELSE pg.weather_weekly]

\* main(): load_cases_from_opendatasus / load_cases_from_csv, then
\* upsert_weekly_cases
ingest_cases ==
    \E wk \in WeeklyFrames(CaseVals), start \in {7 * k : k \in 0..MaxFrame} :
        /\ pg' = IngestUpsert("upsert_weekly_cases", FromStart(wk, start))
        /\ UNCHANGED <<dbVars, runVars, concVars, weekVars, nameVars, predVars, dates, feat,
                       detect, climate_data>>

\* main(): fetch_weather_open_meteo asks the API for the window and weekifies
\* the answer, then upsert_weather_weekly
ingest_weather ==
    \E wk \in WeeklyFrames({25}) :
        /\ pg' = IngestUpsert("upsert_weather_weekly", wk)
        /\ UNCHANGED <<dbVars, runVars, concVars, weekVars, nameVars, predVars, dates, feat,
                       detect, climate_data>>

NextIngest == ingest_cases \/ ingest_weather

SpecIngest == Init /\ [][NextIngest]_vars

\* C28: every tuple the two upserts bind pairs the date of a row of the weekly
\* frame with the values of that same row, and the upsert does not fail, also
\* for frames whose leading weeks the start-date filter removed.
UpsertBindsRowWise ==
    pg.op # "none" =>
        /\ pg.outcome # "KeyError"
        /\ Len(pg.bound) = Len(pg.wk)
        /\ \A p \in 1..Len(pg.wk) :
              pg.bound[p] = [date |-> pg.wk[p].date, value |-> pg.wk[p].value]

-----------------------------------------------------------------------------
(* Script_import_weather_data: two station files into climate_data *)

MaxClimateDays == 3

\* source_name of the entries of FILES_TO_PROCESS
Stations == {"INMET-Diamantina-A537", "INMET-TeofiloOtoni-A527"}

ClimateDays == 1..MaxClimateDays

\* the daily mean temperature a station file has for every day it covers
StationReadings == {20, 21}

\* what process_inmet_csv returns for a station: one row per day of the file
StationFiles(s) ==
    {[source |-> s, days |-> d, reading |-> x] :
        d \in SUBSET ClimateDays, x \in StationReadings}

\* one row of the file as it is bound to the INSERT
ClimateRow(f, d) == [date |-> d, temperature_mean |-> f.reading, source |-> f.source]

\* INSERT ... ON CONFLICT (date) DO NOTHING, with a unique constraint on date
InsertDoNothing(rows, r) ==
    IF \E e \in rows : e.date = r.date THEN rows ELSE rows \cup {r}

RECURSIVE InsertAll(_, _, _)
InsertAll(rows, f, days) ==
    IF days = {} THEN rows
    ELSE LET d == CHOOSE x \in days : \A y \in days : x <= y
         IN  InsertAll(InsertDoNothing(rows, ClimateRow(f, d)), f, days \ {d})

\* the table the script writes to is created elsewhere: date either carries
\* the unique constraint ON CONFLICT (date) names, or the statement is
\* rejected
InitClimate ==
    /\ InitDb
    /\ InitConcIdle
    /\ InitWeekIdle
    /\ InitNames
    /\ InitPredict
    /\ InitRun
    /\ dates = NoDates
    /\ feat = NoFeat
    /\ detect = NoDetect
    /\ pg = NoIngest
    /\ \E u \in BOOLEAN : climate_data = [NoClimate EXCEPT !.date_unique = u]

\* one turn of the loop of __main__: process_inmet_csv, then
\* insert_data_to_db, which rolls back when a statement is rejected
insert_data_to_db ==
    \E s \in Stations :
      \E f \in StationFiles(s) :
        /\ \A i \in 1..Len(climate_data.processed) : climate_data.processed[i].source # s
        /\ climate_data' =
              [climate_data EXCEPT
                  !.rows = IF f.days = {} \/ ~climate_data.date_unique THEN @
                           ELSE InsertAll(@, f, f.days),
                  !.processed = Append(@, f)]
        /\ UNCHANGED <<dbVars, runVars, concVars, weekVars, nameVars, predVars, dates, feat,
                       detect, pg>>

NextClimate == insert_data_to_db

SpecClimate == InitClimate /\ [][NextClimate]_vars

\* C30: once the files of both stations are processed, climate_data holds, for
\* every date both files cover, the reading of each of the two stations, in
\* whichever order the files were processed.
BothStationsStored ==
    Len(climate_data.processed) = 2 =>
        \A d \in climate_data.processed[1].days \cap climate_data.processed[2].days :
            \A i \in 1..2 :
                ClimateRow(climate_data.processed[i], d) \in climate_data.rows

====
